---- MODULE Spec2Model ----
(***************************************************************************)
(* State-machine model of the Study Buddy dashboards.                      *)
(*                                                                         *)
(* The repository holds three variants of one React component:            *)
(*   PART_000  src/unnamed/part_000              (App, text-matched log)   *)
(*   FRONTEND  src/frontend/src/StudyBuddyApp.jsx (App, last-entry log)    *)
(*   PART_001  src/unnamed/part_001              (StudyBuddyApp, no log)   *)
(* The variable `variant` fixes which of them a behaviour runs.            *)
(*                                                                         *)
(* JavaScript runs to completion between awaits, so every handler is one   *)
(* action up to its first await, and every continuation after an await     *)
(* (the rest of try, catch and finally together) is one action.  The       *)
(* handlers are modelled with the guards their code has: the `disabled`    *)
(* attribute of a rendered button is no guard of the form's onSubmit       *)
(* handler, which a submit event reaches whatever the button shows.  The   *)
(* value a form control holds when its form is submitted is the input of   *)
(* the submit action; the onChange handler that stored it is part of the   *)
(* step.                                                                   *)
(***************************************************************************)
EXTENDS Integers, Sequences, FiniteSets, TLC

VARIABLES
    variant,        \* which source file the behaviour runs
    mounted,        \* the mount effect (useEffect) has run
    loading,        \* useState(false)
    error,          \* useState(null)
    query,          \* useState(''): the query input, a sequence of characters
    answer,         \* useState("Hello! ...")
    chatHistory,    \* useState([]): sequence of [query, answer]
    selectedFile,   \* useState(null)
    uploadMessage,  \* useState(''): a sequence of words
    mockReq,        \* useState({topic: '', ...}): the topic, a sequence of characters
    mockResult,     \* useState(null): a JavaScript value
    systemStatus,   \* useState({status: 'Loading...', documents_loaded: 0})
    queryCalls,     \* handleQuerySubmit invocations that passed the guard, in order;
                    \* turn, inFlight and result record the history of each
    uploadCalls,    \* handleFileUpload invocations that passed the guard
    quizCalls,      \* handleTestSubmit / handleMockTestSubmit invocations
    statusCalls     \* fetchSystemStatus invocations, in order

vars == <<variant, mounted, loading, error, query, answer, chatHistory,
          selectedFile, uploadMessage, mockReq, mockResult, systemStatus,
          queryCalls, uploadCalls, quizCalls, statusCalls>>

(***************************************************************************)
(* Bounds.                                                                 *)
(***************************************************************************)
\* Submissions that reach their request (query + upload + quiz) in one
\* behaviour; once they are used up no further form is submitted.
MaxSubmits == 2

PART_000 == "part_000"
FRONTEND == "frontend"
PART_001 == "part_001"
Variants == {PART_000, FRONTEND, PART_001}

\* the variants that keep a conversation log
HasChatHistory(v) == v \in {PART_000, FRONTEND}

\* JavaScript null for the string-or-null state cells
Null == "<null>"

(***************************************************************************)
(* Strings the user types are sequences of one-character strings, so that  *)
(* String.prototype.trim is computed, not assumed.                         *)
(***************************************************************************)
RECURSIVE TrimStart(_)
TrimStart(s) == IF s # <<>> /\ Head(s) = " " THEN TrimStart(Tail(s)) ELSE s

RECURSIVE TrimEnd(_)
TrimEnd(s) == IF s # <<>> /\ s[Len(s)] = " " THEN TrimEnd(SubSeq(s, 1, Len(s) - 1)) ELSE s

Trim(s) == TrimEnd(TrimStart(s))

\* !query.trim() and !topic: the submitted text is empty after trimming
IsBlank_untrimmed(text) == text = <<>>

IsBlank(text) == Trim(text) = <<>>

\* what the user can type into the query input
QueryInputs == { <<" ">>, <<"A", " ">>, <<"B">> }

\* response.data.answer of POST /rag/temp_query
Answers == {"x", "y"}

(***************************************************************************)
(* Texts of the conversation log.                                          *)
(***************************************************************************)
InitialAnswer(v) ==
    IF v = PART_001
    THEN "Hello! Start by uploading a book or asking a question about your indexed material."
    ELSE "Hello! Start by uploading a document or asking a question."

Thinking == "Thinking..."

\* the answer of the optimistic entry pushed at submission
Placeholder(v) == IF v = PART_000 THEN "Generating answer..." ELSE "Generating..."

\* the answer shown for a failed query
FailedAnswer(v) ==
    IF v = PART_000 THEN "Error: Failed to generate answer."
    ELSE "Sorry, I failed to generate an answer."

\* setChatHistory(prev => [...prev, tempEntry])
AppendEntry_replacing(prev, entry) == <<entry>>

AppendEntry(prev, entry) == Append(prev, entry)

\* part_000: write into the last entry when its text equals currentQuery, else push
MatchLastOrPush(prev, currentQuery, newAnswer) ==
    IF Len(prev) > 0 /\ prev[Len(prev)].query = currentQuery
    THEN [prev EXCEPT ![Len(prev)].answer = newAnswer]
    ELSE Append(prev, [query |-> currentQuery, answer |-> newAnswer])

\* StudyBuddyApp.jsx: updated[updated.length - 1].answer = newAnswer
WriteLast(prev, newAnswer) ==
    IF Len(prev) > 0
    THEN [prev EXCEPT ![Len(prev)].answer = newAnswer]
    ELSE prev

\* the log after a query resolved with newAnswer
HistoryOnSuccess(v, prev, currentQuery, newAnswer) ==
    CASE v = PART_000 -> MatchLastOrPush(prev, currentQuery, newAnswer)
      [] v = FRONTEND -> WriteLast(prev, newAnswer)
      [] OTHER        -> prev

\* the log after a query failed
HistoryOnFailure(v, prev, currentQuery) ==
    CASE v = PART_000 -> MatchLastOrPush(prev, currentQuery, FailedAnswer(v))
      [] OTHER        -> prev

\* the displayed answer after a query failed
AnswerOnFailure(v, prev) == IF v = FRONTEND THEN prev ELSE FailedAnswer(v)

(***************************************************************************)
(* Status probes.                                                          *)
(***************************************************************************)
InitialStatus == [status |-> "Loading...", documents_loaded |-> 0]

OfflineStatus == [status |-> "OFFLINE", documents_loaded |-> 0, error |-> TRUE]

\* the catch block of fetchSystemStatus replaces the whole status
StatusOnFailure_merging(prev) ==
    [f \in (DOMAIN prev) \cup {"status", "error"} |->
        CASE f = "status" -> "OFFLINE"
          [] f = "error"  -> TRUE
          [] OTHER        -> prev[f]]

StatusOnFailure(prev) == OfflineStatus

\* response.data of GET /info/status
PrimaryResponses ==
    { [status |-> "ONLINE", documents_loaded |-> n] : n \in {3} }

\* response.data of GET /rag/check_temp_status
TempResponses ==
    { [is_active |-> TRUE, chunk_count |-> 12, document_name |-> "book.pdf"] }

\* prev => ({ ...prev, temp_store: tempStatus.data })
WithTempStore(prev, data) ==
    [f \in (DOMAIN prev) \cup {"temp_store"} |->
        IF f = "temp_store" THEN data ELSE prev[f]]

(***************************************************************************)
(* Upload.                                                                 *)
(***************************************************************************)
\* e.target.files[0]
Files == {"book.pdf"}

\* response.data.status of POST /rag/upload, a sequence of words
UploadStatuses == { <<"Indexed", "Temporarily">>, <<"Saved", "Permanently">> }

\* response.data of POST /rag/upload: with its status, or without one
UploadResponses == { [status |-> st] : st \in UploadStatuses } \cup { [chunks_indexed |-> 12] }

\* `${statusMsg}` in the success text
StatusText(data) == IF "status" \in DOMAIN data THEN data.status ELSE <<"undefined">>

\* statusMsg.includes("Temporarily") on an undefined statusMsg (part_000, part_001)
UploadHandlerThrows(v, data) == v # FRONTEND /\ "status" \notin DOMAIN data

\* String.prototype.includes on a sequence of words
Includes(words, w) == \E i \in DOMAIN words : words[i] = w

\* the argument of setAnswer after a successful upload
UploadAnswer(v, statusMsg) ==
    CASE v = FRONTEND -> "Book \"book.pdf\" indexed. Ready to ask questions."
      [] v = PART_000 ->
           IF Includes(statusMsg, "Temporarily")
           THEN "Book \"book.pdf\" indexed temporarily. Ready to ask questions."
           ELSE "Book \"book.pdf\" permanently saved. Ready to ask questions."
      [] OTHER ->
           IF Includes(statusMsg, "Temporarily")
           THEN "Book \"book.pdf\" indexed temporarily. Ask your question now!"
           ELSE "Book \"book.pdf\" permanently saved. Ready to query."

\* the log after a successful upload: part_000 calls setChatHistory([])
HistoryOnUpload(v, prev) == IF v = PART_000 THEN <<>> ELSE prev

(***************************************************************************)
(* JavaScript values of the quiz payload.  An object is the ordered        *)
(* sequence of its own properties.                                         *)
(***************************************************************************)
JNull == [t |-> "null"]
JUndef == [t |-> "undefined"]
JNum(n) == [t |-> "num", n |-> n]
JStr(s) == [t |-> "str", s |-> s]
JArr(items) == [t |-> "arr", items |-> items]
JObj(fields) == [t |-> "obj", fields |-> fields]
Prop(k, val) == [k |-> k, val |-> val]

IsNullish(x) == x.t \in {"null", "undefined"}

\* ToBoolean
Truthy(x) ==
    CASE x.t = "null"      -> FALSE
      [] x.t = "undefined" -> FALSE
      [] x.t = "num"       -> x.n # 0
      [] x.t = "str"       -> x.s # ""
      [] OTHER             -> TRUE

\* x.k for a non-nullish x (a nullish x throws TypeError: callers test IsNullish)
Get(x, k) ==
    IF x.t = "obj" /\ \E i \in DOMAIN x.fields : x.fields[i].k = k
    THEN x.fields[CHOOSE i \in DOMAIN x.fields : x.fields[i].k = k].val
    ELSE JUndef

\* a || b
Or(a, b) == IF Truthy(a) THEN a ELSE b

\* x.length > 0 for a non-nullish x
LengthPositive(x) ==
    CASE x.t = "arr" -> Len(x.items) > 0
      [] x.t = "str" -> x.s # ""
      [] OTHER       -> Truthy(Get(x, "length"))

\* !x.length for a non-nullish x
LengthFalsy(x) ==
    CASE x.t = "arr" -> Len(x.items) = 0
      [] x.t = "str" -> x.s = ""
      [] OTHER       -> ~Truthy(Get(x, "length"))

\* two questions as a backend may send them
Q1 == JObj(<< Prop("question", JStr("2+2?")),
              Prop("options", JArr(<<JStr("3"), JStr("4")>>)),
              Prop("correct_answer", JStr("4")) >>)

Q2 == JObj(<< Prop("question_text", JStr("Capital?")),
              Prop("options", JObj(<<Prop("A", JStr("Paris")), Prop("B", JStr("Rome"))>>)),
              Prop("answer", JStr("Paris")),
              Prop("difficulty", JStr("Hard")) >>)

\* the question lists the payloads carry
QuestionLists == { <<Q1>>, <<Q2>>, <<Q1, Q2>> }

\* JSON.stringify of a question list
Encode(list) ==
    CASE list = <<Q1>> ->
           "[{\"question\":\"2+2?\",\"options\":[\"3\",\"4\"],\"correct_answer\":\"4\"}]"
      [] list = <<Q2>> ->
           "[{\"question_text\":\"Capital?\",\"options\":{\"A\":\"Paris\",\"B\":\"Rome\"},\"answer\":\"Paris\",\"difficulty\":\"Hard\"}]"
      [] list = <<Q1, Q2>> ->
           "[{\"question\":\"2+2?\",\"options\":[\"3\",\"4\"],\"correct_answer\":\"4\"},{\"question_text\":\"Capital?\",\"options\":{\"A\":\"Paris\",\"B\":\"Rome\"},\"answer\":\"Paris\",\"difficulty\":\"Hard\"}]"
      [] OTHER -> "[]"

\* JSON.parse on the strings the payloads carry: the value, or a SyntaxError
JSONparse(s) ==
    CASE s = "null" -> [ok |-> TRUE, value |-> JNull]
      [] s = "5"    -> [ok |-> TRUE, value |-> JNum(5)]
      [] s = "0"    -> [ok |-> TRUE, value |-> JNum(0)]
      [] s = "[]"   -> [ok |-> TRUE, value |-> JArr(<<>>)]
      [] s = "{}"   -> [ok |-> TRUE, value |-> JObj(<<>>)]
      [] s = "\"text\"" -> [ok |-> TRUE, value |-> JStr("text")]
      [] s = Encode(<<Q1>>)     -> [ok |-> TRUE, value |-> JArr(<<Q1>>)]
      [] s = Encode(<<Q2>>)     -> [ok |-> TRUE, value |-> JArr(<<Q2>>)]
      [] s = Encode(<<Q1, Q2>>) -> [ok |-> TRUE, value |-> JArr(<<Q1, Q2>>)]
      [] OTHER -> [ok |-> FALSE, value |-> JUndef]

\* the shapes in which a backend delivers a question list
BareArray(list) == JArr(list)
InQuestions(list) == JObj(<<Prop("questions", JArr(list))>>)
InQuizQuestions(list) == JObj(<<Prop("quiz_questions", JArr(list))>>)
InDataQuestions(list) == JObj(<<Prop("data", JObj(<<Prop("questions", JArr(list))>>))>>)
InQuestionsString(list) == JObj(<<Prop("questions", JStr(Encode(list)))>>)
TitledQuiz(list) == JObj(<<Prop("test_title", JStr("Mock Test")), Prop("questions", JArr(list))>>)

KnownShapes(list) ==
    { BareArray(list), InQuestions(list), InQuizQuestions(list),
      InDataQuestions(list), InQuestionsString(list), TitledQuiz(list) }
    \cup (IF Len(list) = 1 THEN {list[1]} ELSE {})

\* payloads that carry no question list
QuestionsField(x) == JObj(<<Prop("questions", x)>>)

EmptyPayloads ==
    { JNull, JObj(<<>>), JObj(<<Prop("message", JStr("ok"))>>),
      QuestionsField(JStr("null")), QuestionsField(JStr("5")), QuestionsField(JStr("0")),
      QuestionsField(JStr("not json")), QuestionsField(JStr("{}")),
      QuestionsField(JStr("[]")), QuestionsField(JArr(<<>>)), QuestionsField(JNull),
      QuestionsField(JNum(5)), QuestionsField(JStr("\"text\"")), QuestionsField(JStr("")),
      JArr(<<>>) }

\* payloads that carry question lists under two of the probed fields
TwoFieldPayloads ==
    { JObj(<<Prop("quiz_questions", JArr(<<Q2>>)), Prop("questions", JArr(<<Q1>>))>>),
      JObj(<<Prop("questions", JArr(<<>>)), Prop("quiz_questions", JArr(<<Q1>>))>>),
      JObj(<<Prop("data", JObj(<<Prop("questions", JArr(<<Q2>>))>>)),
             Prop("quiz_questions", JArr(<<Q1>>))>>),
      JObj(<<Prop("question", JStr("2+2?")), Prop("questions", JArr(<<Q2>>))>>) }

\* questions that exercise the field chains: a zero answer, an empty first
\* field, only the last field of each chain, no field at all, a numeric level
QZeroAnswer == JObj(<< Prop("question", JStr("2+2?")),
                       Prop("options", JArr(<<JStr("4"), JStr("3")>>)),
                       Prop("correct_answer", JNum(0)) >>)

QEmptyText == JObj(<< Prop("question_text", JStr("")),
                      Prop("question", JStr("2+2?")),
                      Prop("difficulty", JStr("")),
                      Prop("level", JStr("Hard")) >>)

QLastFields == JObj(<< Prop("prompt", JStr("Capital?")),
                       Prop("answers", JArr(<<JStr("Paris"), JStr("Rome")>>)),
                       Prop("solution", JStr("Paris")),
                       Prop("level", JStr("Easy")) >>)

QNoFields == JObj(<<>>)

QNumericLevel == JObj(<< Prop("question", JStr("2+2?")), Prop("level", JNum(2)) >>)

FieldQuestions == { QZeroAnswer, QEmptyText, QLastFields, QNoFields, QNumericLevel }

FieldPayloads ==
    { InQuestions(<<q>>) : q \in FieldQuestions } \cup { BareArray(<<q>>) : q \in FieldQuestions }

\* response.data of a quiz request, for the decoding claims
Payloads ==
    EmptyPayloads \cup TwoFieldPayloads \cup FieldPayloads
        \cup UNION { KnownShapes(list) : list \in QuestionLists }

\* response.data of a quiz request in the whole-application behaviours
QuizResponses == { JNull, JObj(<<>>), BareArray(<<Q1>>), TitledQuiz(<<Q2>>), InQuestionsString(<<Q1>>) }

\* the value set by the catch block of the quiz handler
QuizErrorResult(v) ==
    IF v = FRONTEND
    THEN JArr(<<>>)
    ELSE JObj(<<Prop("test_title", JStr("Generation Error")), Prop("questions", JArr(<<>>))>>)

\* does the try block of the quiz handler throw on this response body
QuizHandlerThrows(v, data) ==
    CASE v = PART_000 -> IsNullish(data)                            \* Object.keys(response.data)
      [] v = FRONTEND -> data.t # "arr" /\ IsNullish(data)          \* response.data.questions
      [] OTHER        -> FALSE

\* the argument of setMockResult in the try block
QuizHandlerResult(v, data) ==
    CASE v = FRONTEND ->
           IF data.t = "arr" THEN data ELSE Or(Get(data, "questions"), JArr(<<>>))
      [] OTHER -> data

Rendered(items) == [raised |-> FALSE, questions |-> items]
RenderRaises == [raised |-> TRUE, questions |-> <<>>]

\* the list a value yields when .map is called on it after a length test
MapOver(x) == IF x.t = "arr" THEN Rendered(x.items) ELSE RenderRaises

\* part_000, TABS.MOCK: the question list the render extracts from mockResult
RenderQuestions_part_000(m) ==
    IF ~Truthy(m) THEN Rendered(<<>>)
    ELSE
      LET data == Get(m, "data")
          found == Or(Or(Or(Get(m, "questions"), Get(m, "quiz_questions")),
                         IF IsNullish(data) THEN JUndef ELSE Get(data, "questions")),
                      JArr(<<>>))
          parsed == IF found.t = "str"
                    THEN (IF JSONparse(found.s).ok THEN JSONparse(found.s).value ELSE JArr(<<>>))
                    ELSE found
      IN  IF IsNullish(parsed) THEN RenderRaises
          ELSE LET questions ==
                     IF LengthFalsy(parsed)
                        /\ Truthy(Or(Get(m, "question_text"), Get(m, "question")))
                     THEN JArr(<<m>>)
                     ELSE parsed
               IN  IF LengthPositive(questions) THEN MapOver(questions) ELSE Rendered(<<>>)

\* StudyBuddyApp.jsx, TABS.MOCK: mockResult && mockResult.length > 0 && mockResult.map
RenderQuestions_frontend(m) ==
    IF ~Truthy(m) THEN Rendered(<<>>)
    ELSE IF LengthPositive(m) THEN MapOver(m) ELSE Rendered(<<>>)

\* part_001, TABS.MOCK: mockResult?.questions.length > 0 ? mockResult.questions.map
RenderQuestions_part_001(m) ==
    IF IsNullish(m) THEN Rendered(<<>>)
    ELSE LET questions == Get(m, "questions")
         IN  IF IsNullish(questions) THEN RenderRaises
             ELSE IF LengthPositive(questions) THEN MapOver(questions) ELSE Rendered(<<>>)

RenderQuestions(v, m) ==
    CASE v = PART_000 -> RenderQuestions_part_000(m)
      [] v = FRONTEND -> RenderQuestions_frontend(m)
      [] OTHER        -> RenderQuestions_part_001(m)

\* what the quiz tab shows of one question
ShownQuestion(text, options, correctAnswer, difficulty) ==
    [raised |-> FALSE, text |-> text, options |-> options,
     correctAnswer |-> correctAnswer, difficulty |-> difficulty]

QuestionRaises ==
    [raised |-> TRUE, text |-> JUndef, options |-> <<>>,
     correctAnswer |-> JUndef, difficulty |-> JUndef]

Option(label, text) == [label |-> label, text |-> text]

\* `Question ${i + 1}` for the 0-based index i
QuestionNumber(i) == <<"Question 1", "Question 2", "Question 3">>[i + 1]

\* String.fromCharCode(65 + idx) for the 0-based index idx
Letter(idx) == <<"A", "B", "C", "D">>[idx + 1]

\* the key Object.entries gives the array element at the 0-based index idx
IndexKey(idx) == <<"0", "1", "2", "3">>[idx + 1]

\* a || b || c || d
FirstTruthy(q, chain, last) ==
    LET RECURSIVE from(_)
        from(n) == IF n > Len(chain) THEN last
                   ELSE IF Truthy(Get(q, chain[n])) THEN Get(q, chain[n])
                   ELSE from(n + 1)
    IN  from(1)

TextChain == <<"question_text", "question", "text", "prompt">>
OptionsChain == <<"options", "choices", "answers">>
AnswerChain == <<"correct_answer", "answer", "correct">>
DifficultyChain == <<"difficulty", "level">>

\* part_000: options.length > 0 && options.map((option, idx) => <li data-option=...>)
OptionsByPosition(options) ==
    [n \in DOMAIN options.items |-> Option(Letter(n - 1), options.items[n])]

\* part_000: one <li> of questions.map((q, i) => ...)
RenderQuestion_part_000(q, i) ==
    IF IsNullish(q) THEN QuestionRaises
    ELSE
      LET questionText == FirstTruthy(q, TextChain, JStr(QuestionNumber(i)))
          options == FirstTruthy(q, OptionsChain, JArr(<<>>))
          correctAnswer == FirstTruthy(q, AnswerChain, Get(q, "solution"))
          difficulty == FirstTruthy(q, DifficultyChain, JStr("Medium"))
      IN  IF difficulty.t # "str" THEN QuestionRaises              \* difficulty.toLowerCase()
          ELSE IF LengthPositive(options) /\ options.t # "arr" THEN QuestionRaises  \* options.map
          ELSE ShownQuestion(questionText,
                             IF LengthPositive(options) THEN OptionsByPosition(options) ELSE <<>>,
                             IF Truthy(correctAnswer) THEN correctAnswer ELSE JUndef,
                             difficulty)

\* Object.entries(x) of an array, an object or a number
Entries(x) ==
    CASE x.t = "arr" -> [n \in DOMAIN x.items |-> Option(IndexKey(n - 1), x.items[n])]
      [] x.t = "obj" -> [n \in DOMAIN x.fields |-> Option(x.fields[n].k, x.fields[n].val)]
      [] x.t = "num" -> <<>>

\* StudyBuddyApp.jsx: one <li> of mockResult.map((q, i) => ...)
RenderQuestion_frontend(q, i) ==
    IF IsNullish(q) THEN QuestionRaises
    ELSE ShownQuestion(Get(q, "question"),
                       IF Truthy(Get(q, "options")) THEN Entries(Get(q, "options")) ELSE <<>>,
                       IF Truthy(Get(q, "correct_answer")) THEN Get(q, "correct_answer") ELSE JUndef,
                       JUndef)

\* part_001: one <li> of mockResult.questions.map((q, index) => ...)
RenderQuestion_part_001(q, i) ==
    IF IsNullish(q) THEN QuestionRaises
    ELSE ShownQuestion(Get(q, "question_text"), <<>>, JUndef, Get(q, "difficulty"))

RenderQuestion(v, q, i) ==
    CASE v = PART_000 -> RenderQuestion_part_000(q, i)
      [] v = FRONTEND -> RenderQuestion_frontend(q, i)
      [] OTHER        -> RenderQuestion_part_001(q, i)

\* the quiz tab for mockResult m: the list extracted, then each of its questions
RenderQuiz(v, m) ==
    LET list == RenderQuestions(v, m)
        shown == [n \in DOMAIN list.questions |-> RenderQuestion(v, list.questions[n], n - 1)]
    IN  IF list.raised \/ \E n \in DOMAIN shown : shown[n].raised
        THEN [raised |-> TRUE, questions |-> <<>>]
        ELSE [raised |-> FALSE, questions |-> shown]

\* what the user can type into the topic input
TopicInputs == { <<" ">>, <<"T">> }

\* the banner set when the topic is blank
TopicMissing(v) ==
    IF v = PART_000 THEN "Please enter a topic to generate a quiz." ELSE "Please enter a topic."

QuizFailed(v) ==
    CASE v = PART_000 -> "Quiz/Test Generation Failed"
      [] v = FRONTEND -> "Quiz Generation Failed"
      [] OTHER        -> "Mock Test Generation Failed"

\* finally { setLoading(false) } of the three handlers
Finally_skipped(prevLoading) == prevLoading

Finally(prevLoading) == FALSE

\* number of submissions accepted so far
Submits == Len(queryCalls) + Len(uploadCalls) + Len(quizCalls)

Pending(calls) == { i \in DOMAIN calls : calls[i].status = "pending" }

(***************************************************************************)
(* Initial state: the values passed to useState.                           *)
(***************************************************************************)
Init ==
    /\ variant \in Variants
    /\ mounted = FALSE
    /\ loading = FALSE
    /\ error = Null
    /\ query = <<>>
    /\ answer = InitialAnswer(variant)
    /\ chatHistory = <<>>
    /\ selectedFile = Null
    /\ uploadMessage = <<>>
    /\ mockReq = <<>>
    /\ mockResult = JNull
    /\ systemStatus = InitialStatus
    /\ queryCalls = <<>>
    /\ uploadCalls = <<>>
    /\ quizCalls = <<>>
    /\ statusCalls = <<>>

(***************************************************************************)
(* fetchSystemStatus                                                       *)
(***************************************************************************)
\* the call starts: GET /info/status is issued
StartStatusCall(calls) ==
    Append(calls, [pc |-> "primary", primary |-> <<>>, secondary |-> <<>>, outcome |-> "running"])

\* useEffect(() => { fetchSystemStatus(); }, [fetchSystemStatus])
Mount ==
    /\ ~mounted
    /\ mounted' = TRUE
    /\ statusCalls' = StartStatusCall(statusCalls)
    /\ UNCHANGED <<variant, loading, error, query, answer, chatHistory,
                   selectedFile, uploadMessage, mockReq, mockResult, systemStatus,
                   queryCalls, uploadCalls, quizCalls>>

\* GET /info/status resolved: setSystemStatus(response.data), then the second GET
PrimaryResolved(i, data) ==
    /\ i \in DOMAIN statusCalls
    /\ statusCalls[i].pc = "primary"
    /\ systemStatus' = data
    /\ statusCalls' = [statusCalls EXCEPT ![i].pc = "secondary", ![i].primary = <<data>>]
    /\ UNCHANGED <<variant, mounted, loading, error, query, answer, chatHistory,
                   selectedFile, uploadMessage, mockReq, mockResult,
                   queryCalls, uploadCalls, quizCalls>>

\* GET /info/status rejected: the catch block
PrimaryRejected(i) ==
    /\ i \in DOMAIN statusCalls
    /\ statusCalls[i].pc = "primary"
    /\ systemStatus' = StatusOnFailure(systemStatus)
    /\ statusCalls' = [statusCalls EXCEPT ![i].pc = "done", ![i].outcome = "primary-failed"]
    /\ UNCHANGED <<variant, mounted, loading, error, query, answer, chatHistory,
                   selectedFile, uploadMessage, mockReq, mockResult,
                   queryCalls, uploadCalls, quizCalls>>

\* GET /rag/check_temp_status resolved: the functional update
SecondaryResolved(i, data) ==
    /\ i \in DOMAIN statusCalls
    /\ statusCalls[i].pc = "secondary"
    /\ systemStatus' = WithTempStore(systemStatus, data)
    /\ statusCalls' = [statusCalls EXCEPT ![i].pc = "done", ![i].secondary = <<data>>,
                                          ![i].outcome = "both-ok"]
    /\ UNCHANGED <<variant, mounted, loading, error, query, answer, chatHistory,
                   selectedFile, uploadMessage, mockReq, mockResult,
                   queryCalls, uploadCalls, quizCalls>>

\* GET /rag/check_temp_status rejected: the catch block
SecondaryRejected(i) ==
    /\ i \in DOMAIN statusCalls
    /\ statusCalls[i].pc = "secondary"
    /\ systemStatus' = StatusOnFailure(systemStatus)
    /\ statusCalls' = [statusCalls EXCEPT ![i].pc = "done", ![i].outcome = "secondary-failed"]
    /\ UNCHANGED <<variant, mounted, loading, error, query, answer, chatHistory,
                   selectedFile, uploadMessage, mockReq, mockResult,
                   queryCalls, uploadCalls, quizCalls>>

(***************************************************************************)
(* handleQuerySubmit                                                       *)
(***************************************************************************)
\* the text sent to the backend and kept for the completion
CurrentQuery(v, text) == IF v = PART_001 THEN text ELSE Trim(text)

\* The form is submitted with `text` in the query input (onChange stored it by
\* setQuery).  The handler runs up to its await; a blank query returns before
\* anything else is set.
handleQuerySubmit(text) ==
    /\ mounted
    /\ Submits < MaxSubmits
    /\ IF IsBlank(text)
       THEN /\ query' = text
            /\ UNCHANGED <<variant, mounted, loading, error, answer, chatHistory,
                           selectedFile, uploadMessage, mockReq, mockResult, systemStatus,
                           queryCalls, uploadCalls, quizCalls, statusCalls>>
       ELSE /\ query' = IF variant = PART_001 THEN text ELSE <<>>
            /\ loading' = TRUE
            /\ error' = Null
            /\ answer' = Thinking
            /\ chatHistory' =
                 IF HasChatHistory(variant)
                 THEN AppendEntry(chatHistory,
                        [query |-> CurrentQuery(variant, text), answer |-> Placeholder(variant)])
                 ELSE chatHistory
            /\ queryCalls' = Append(queryCalls,
                 [currentQuery |-> CurrentQuery(variant, text),
                  status |-> "pending",
                  turn |-> Len(chatHistory) + 1,
                  inFlight |-> Pending(queryCalls),
                  result |-> Null])
            /\ UNCHANGED <<variant, mounted, selectedFile, uploadMessage, mockReq,
                           mockResult, systemStatus, uploadCalls, quizCalls,
                           statusCalls>>

\* POST /rag/temp_query resolved: rest of try, then finally
QueryResolved(i, newAnswer) ==
    /\ i \in Pending(queryCalls)
    /\ answer' = newAnswer
    /\ chatHistory' = HistoryOnSuccess(variant, chatHistory, queryCalls[i].currentQuery, newAnswer)
    /\ loading' = Finally(loading)
    /\ queryCalls' = [queryCalls EXCEPT ![i].status = "resolved", ![i].result = newAnswer]
    /\ UNCHANGED <<variant, mounted, error, query, selectedFile, uploadMessage,
                   mockReq, mockResult, systemStatus, uploadCalls, quizCalls,
                   statusCalls>>

\* POST /rag/temp_query rejected: catch, then finally
QueryRejected(i) ==
    /\ i \in Pending(queryCalls)
    /\ error' = "Query Failed"
    /\ answer' = AnswerOnFailure(variant, answer)
    /\ chatHistory' = HistoryOnFailure(variant, chatHistory, queryCalls[i].currentQuery)
    /\ loading' = Finally(loading)
    /\ queryCalls' = [queryCalls EXCEPT ![i].status = "rejected",
                                        ![i].result = FailedAnswer(variant)]
    /\ UNCHANGED <<variant, mounted, query, selectedFile, uploadMessage,
                   mockReq, mockResult, systemStatus, uploadCalls, quizCalls,
                   statusCalls>>

(***************************************************************************)
(* handleFileUpload                                                        *)
(***************************************************************************)
\* The form is submitted with `f` chosen in the file input (onChange stored it
\* by setSelectedFile).  The handler runs up to its await; without a file it
\* returns at once.
handleFileUpload(f) ==
    /\ mounted
    /\ Submits < MaxSubmits
    /\ IF f = Null
       THEN /\ selectedFile' = f
            /\ UNCHANGED <<variant, mounted, loading, error, query, answer, chatHistory,
                           uploadMessage, mockReq, mockResult, systemStatus,
                           queryCalls, uploadCalls, quizCalls, statusCalls>>
       ELSE /\ selectedFile' = f
            /\ loading' = TRUE
            /\ error' = Null
            /\ uploadMessage' = <<"Indexing document...">>
            /\ uploadCalls' = Append(uploadCalls, [file |-> f, status |-> "pending", raised |-> FALSE])
            /\ UNCHANGED <<variant, mounted, query, answer, chatHistory,
                           mockReq, mockResult, systemStatus, queryCalls, quizCalls,
                           statusCalls>>

\* POST /rag/upload resolved with body data: rest of try (which starts a status
\* refresh), or the statements of try up to the TypeError and then catch; finally
UploadResolved(i, data) ==
    /\ i \in Pending(uploadCalls)
    /\ chatHistory' = HistoryOnUpload(variant, chatHistory)
    /\ IF UploadHandlerThrows(variant, data)
       THEN /\ error' = "Upload Failed"
            /\ uploadMessage' = <<>>
            /\ UNCHANGED <<answer, statusCalls>>
       ELSE /\ uploadMessage' = <<"Success">> \o StatusText(data)
            /\ answer' = UploadAnswer(variant, StatusText(data))
            /\ statusCalls' = StartStatusCall(statusCalls)
            /\ UNCHANGED error
    /\ loading' = Finally(loading)
    /\ selectedFile' = Null
    /\ uploadCalls' = [uploadCalls EXCEPT ![i].status = "resolved",
                                          ![i].raised = UploadHandlerThrows(variant, data)]
    /\ UNCHANGED <<variant, mounted, query, mockReq, mockResult, systemStatus,
                   queryCalls, quizCalls>>

\* POST /rag/upload rejected: catch, then finally
UploadRejected(i) ==
    /\ i \in Pending(uploadCalls)
    /\ error' = "Upload Failed"
    /\ uploadMessage' = <<>>
    /\ loading' = Finally(loading)
    /\ selectedFile' = Null
    /\ uploadCalls' = [uploadCalls EXCEPT ![i].status = "rejected"]
    /\ UNCHANGED <<variant, mounted, query, answer, chatHistory, mockReq, mockResult,
                   systemStatus, queryCalls, quizCalls, statusCalls>>

(***************************************************************************)
(* handleTestSubmit (part_000, StudyBuddyApp.jsx), handleMockTestSubmit    *)
(* (part_001)                                                              *)
(***************************************************************************)
\* The form is submitted with `text` in the topic input (onChange stored it in
\* mockReq; part_001 has no topic).  The handler runs up to its await; a blank
\* topic sets the banner and returns.
handleTestSubmit(text) ==
    /\ mounted
    /\ Submits < MaxSubmits
    /\ variant = PART_001 => text = mockReq
    /\ IF variant # PART_001 /\ IsBlank(text)
       THEN /\ mockReq' = text
            /\ error' = TopicMissing(variant)
            /\ UNCHANGED <<variant, mounted, loading, query, answer, chatHistory,
                           selectedFile, uploadMessage, mockResult, systemStatus,
                           queryCalls, uploadCalls, quizCalls, statusCalls>>
       ELSE /\ mockReq' = text
            /\ loading' = TRUE
            /\ error' = Null
            /\ mockResult' = JNull
            /\ quizCalls' = Append(quizCalls, [status |-> "pending", data |-> <<>>])
            /\ UNCHANGED <<variant, mounted, query, answer, chatHistory, selectedFile,
                           uploadMessage, systemStatus, queryCalls, uploadCalls,
                           statusCalls>>

\* the quiz request resolved with body data: rest of try (or catch when it throws), finally
QuizResolved(i, data) ==
    /\ i \in Pending(quizCalls)
    /\ IF QuizHandlerThrows(variant, data)
       THEN /\ error' = QuizFailed(variant)
            /\ mockResult' = QuizErrorResult(variant)
       ELSE /\ error' = error
            /\ mockResult' = QuizHandlerResult(variant, data)
    /\ loading' = Finally(loading)
    /\ quizCalls' = [quizCalls EXCEPT ![i].status = "resolved", ![i].data = <<data>>]
    /\ UNCHANGED <<variant, mounted, query, answer, chatHistory, selectedFile,
                   uploadMessage, mockReq, systemStatus, queryCalls, uploadCalls,
                   statusCalls>>

\* the quiz request rejected: catch, then finally
QuizRejected(i) ==
    /\ i \in Pending(quizCalls)
    /\ error' = QuizFailed(variant)
    /\ mockResult' = QuizErrorResult(variant)
    /\ loading' = Finally(loading)
    /\ quizCalls' = [quizCalls EXCEPT ![i].status = "rejected"]
    /\ UNCHANGED <<variant, mounted, query, answer, chatHistory, selectedFile,
                   uploadMessage, mockReq, systemStatus, queryCalls, uploadCalls,
                   statusCalls>>

Next ==
    \/ Mount
    \/ \E i \in DOMAIN statusCalls, data \in PrimaryResponses : PrimaryResolved(i, data)
    \/ \E i \in DOMAIN statusCalls : PrimaryRejected(i)
    \/ \E i \in DOMAIN statusCalls, data \in TempResponses : SecondaryResolved(i, data)
    \/ \E i \in DOMAIN statusCalls : SecondaryRejected(i)
    \/ \E text \in QueryInputs : handleQuerySubmit(text)
    \/ \E i \in DOMAIN queryCalls, a \in Answers : QueryResolved(i, a)
    \/ \E i \in DOMAIN queryCalls : QueryRejected(i)
    \/ \E f \in Files \cup {Null} : handleFileUpload(f)
    \/ \E i \in DOMAIN uploadCalls, data \in UploadResponses : UploadResolved(i, data)
    \/ \E i \in DOMAIN uploadCalls : UploadRejected(i)
    \/ \E text \in TopicInputs \cup {<<>>} : handleTestSubmit(text)
    \/ \E i \in DOMAIN quizCalls, data \in QuizResponses : QuizResolved(i, data)
    \/ \E i \in DOMAIN quizCalls : QuizRejected(i)

Spec == Init /\ [][Next]_vars

(***************************************************************************)
(* The application as its rendered forms let it be driven: a form is       *)
(* submitted only while its submit button is enabled.                      *)
(***************************************************************************)
\* <button type="submit" disabled={loading || !selectedFile}>
UploadDisabled(v, f) == loading \/ f = Null

\* <button type="submit" disabled={loading || !query.trim()}>; StudyBuddyApp.jsx: {loading}
QueryDisabled_ungated(v, text) == v # FRONTEND /\ IsBlank(text)

QueryDisabled(v, text) == loading \/ (v # FRONTEND /\ IsBlank(text))

\* part_000: {loading || !mockReq.topic.trim()}; StudyBuddyApp.jsx: {loading};
\* part_001: {loading || systemStatus.documents_loaded < 1}
QuizDisabled(v, text) ==
    CASE v = PART_000 -> loading \/ IsBlank(text)
      [] v = FRONTEND -> loading
      [] OTHER        -> loading \/ systemStatus.documents_loaded < 1

NextUI ==
    \/ Mount
    \/ \E i \in DOMAIN statusCalls, data \in PrimaryResponses : PrimaryResolved(i, data)
    \/ \E i \in DOMAIN statusCalls : PrimaryRejected(i)
    \/ \E i \in DOMAIN statusCalls, data \in TempResponses : SecondaryResolved(i, data)
    \/ \E i \in DOMAIN statusCalls : SecondaryRejected(i)
    \/ \E text \in QueryInputs : ~QueryDisabled(variant, text) /\ handleQuerySubmit(text)
    \/ \E i \in DOMAIN queryCalls, a \in Answers : QueryResolved(i, a)
    \/ \E i \in DOMAIN queryCalls : QueryRejected(i)
    \/ \E f \in Files \cup {Null} : ~UploadDisabled(variant, f) /\ handleFileUpload(f)
    \/ \E i \in DOMAIN uploadCalls, data \in UploadResponses : UploadResolved(i, data)
    \/ \E i \in DOMAIN uploadCalls : UploadRejected(i)
    \/ \E text \in TopicInputs \cup {<<>>} : ~QuizDisabled(variant, text) /\ handleTestSubmit(text)
    \/ \E i \in DOMAIN quizCalls, data \in QuizResponses : QuizResolved(i, data)
    \/ \E i \in DOMAIN quizCalls : QuizRejected(i)

SpecUI == Init /\ [][NextUI]_vars

(***************************************************************************)
(* Quiz decoding on its own: a quiz request is in flight and resolves with *)
(* any of the payloads.                                                    *)
(***************************************************************************)
InitQuiz ==
    /\ variant \in Variants
    /\ mounted = TRUE
    /\ loading = TRUE
    /\ error = Null
    /\ query = <<>>
    /\ answer = InitialAnswer(variant)
    /\ chatHistory = <<>>
    /\ selectedFile = Null
    /\ uploadMessage = <<>>
    /\ mockReq = IF variant = PART_001 THEN <<>> ELSE <<"T">>
    /\ mockResult = JNull
    /\ systemStatus = InitialStatus
    /\ queryCalls = <<>>
    /\ uploadCalls = <<>>
    /\ quizCalls = <<[status |-> "pending", data |-> <<>>]>>
    /\ statusCalls = StartStatusCall(<<>>)

NextQuiz == \E i \in DOMAIN quizCalls, data \in Payloads : QuizResolved(i, data)

SpecQuiz == InitQuiz /\ [][NextQuiz]_vars

(***************************************************************************)
(* Shorthands of the properties.                                           *)
(***************************************************************************)
Settled(calls) == Pending(calls) = {}

\* the query texts of the log, in order
LogQueries == [k \in DOMAIN chatHistory |-> chatHistory[k].query]

\* the query texts of the accepted submissions, in order
SubmittedQueries == [i \in DOMAIN queryCalls |-> queryCalls[i].currentQuery]

\* the question list the quiz tab shows
Shown == RenderQuestions(variant, mockResult)

\* the body the resolved quiz request carried
QuizBody == quizCalls[1].data[1]

QuizDecoded == quizCalls # <<>> /\ quizCalls[1].status = "resolved"

(***************************************************************************)
(* C1: after N accepted query submissions and any interleaving of their    *)
(* completions, the log holds exactly N entries, one per submission, with  *)
(* the query texts in submission order.                                    *)
(***************************************************************************)
C1_LogIsOneEntryPerSubmission ==
    (HasChatHistory(variant) /\ uploadCalls = <<>> /\ Settled(queryCalls))
        => LogQueries = SubmittedQueries

(***************************************************************************)
(* C2: two submissions of the same text that are in flight together stay   *)
(* distinguishable: once both have settled, the turn of each holds its own *)
(* completion's answer, whatever the order of the completions.             *)
(***************************************************************************)
C2_SameTextTurnsKeepOwnAnswer ==
    \A i, j \in DOMAIN queryCalls :
        ( /\ HasChatHistory(variant)
          /\ uploadCalls = <<>>
          /\ i \in queryCalls[j].inFlight
          /\ queryCalls[i].currentQuery = queryCalls[j].currentQuery
          /\ queryCalls[i].status # "pending"
          /\ queryCalls[j].status # "pending"
          /\ Len(queryCalls) = 2 )
        => /\ chatHistory[queryCalls[i].turn].answer = queryCalls[i].result
           /\ chatHistory[queryCalls[j].turn].answer = queryCalls[j].result

(***************************************************************************)
(* C3: a turn leaves its placeholder at most once: once a turn's answer is *)
(* final, no step changes that turn's answer again.                        *)
(***************************************************************************)
C3_FinalAnswerNeverRewritten ==
    [][ \A k \in DOMAIN chatHistory :
          (chatHistory[k].answer # Placeholder(variant) /\ k \in DOMAIN chatHistory')
              => chatHistory'[k].answer = chatHistory[k].answer ]_vars

C5_NothingPendingAfterSettling ==
    (queryCalls # <<>> /\ Settled(queryCalls))
        => /\ \A k \in DOMAIN chatHistory : chatHistory[k].answer # Placeholder(variant)
           /\ answer # Thinking

(***************************************************************************)
(* C6: the step in which the primary probe of a refresh fails leaves       *)
(* systemStatus OFFLINE with document count 0 and no temp store.           *)
(***************************************************************************)
C6_PrimaryFailureYieldsOffline ==
    [][ \A i \in DOMAIN statusCalls :
          (statusCalls[i].pc = "primary" /\ statusCalls'[i].outcome = "primary-failed")
              => /\ systemStatus'.status = "OFFLINE"
                 /\ systemStatus'.documents_loaded = 0
                 /\ "temp_store" \notin DOMAIN systemStatus' ]_vars

\* a refresh whose primary probe failed, after an earlier refresh had stored a temp store
C6_Witness ==
    \E i, j \in DOMAIN statusCalls :
        /\ i < j
        /\ statusCalls[i].outcome = "both-ok"
        /\ statusCalls[j].outcome = "primary-failed"
        /\ systemStatus = OfflineStatus

(***************************************************************************)
(* C7: the step in which the secondary probe fails after the primary       *)
(* succeeded leaves systemStatus with the primary's status and document    *)
(* count, and an inactive temp store.                                      *)
(***************************************************************************)
C7_SecondaryFailureKeepsPrimary ==
    [][ \A i \in DOMAIN statusCalls :
          (statusCalls[i].pc = "secondary" /\ statusCalls'[i].outcome = "secondary-failed")
              => /\ systemStatus'.status = statusCalls[i].primary[1].status
                 /\ systemStatus'.documents_loaded = statusCalls[i].primary[1].documents_loaded
                 /\ ("temp_store" \in DOMAIN systemStatus'
                        => ~systemStatus'.temp_store.is_active) ]_vars

(***************************************************************************)
(* C8: systemStatus never holds the primary probe's result of a refresh    *)
(* whose secondary probe is still outstanding.                             *)
(***************************************************************************)
C8_NoHalfAggregatedStatus ==
    \A i \in DOMAIN statusCalls :
        statusCalls[i].pc = "secondary" => systemStatus # statusCalls[i].primary[1]

(***************************************************************************)
(* C9: decoding is total: null, an empty object, an unrelated object and   *)
(* an object whose questions string parses to null or a number are shown   *)
(* as an empty question list, and rendering them raises nothing.           *)
(***************************************************************************)
C9_Payloads ==
    { JNull, JObj(<<>>), JObj(<<Prop("message", JStr("ok"))>>),
      QuestionsField(JStr("null")), QuestionsField(JStr("5")) }

C9_DecodingIsTotal ==
    (QuizDecoded /\ QuizBody \in C9_Payloads) => Shown = Rendered(<<>>)

(***************************************************************************)
(* C10: a question list delivered as a bare array, in questions, in        *)
(* quiz_questions, in data.questions, as a JSON string or as a single bare *)
(* question object is shown as that same question list.                    *)
(***************************************************************************)
C10_Shapes(list) ==
    { BareArray(list), InQuestions(list), InQuizQuestions(list),
      InDataQuestions(list), InQuestionsString(list) }
    \cup (IF Len(list) = 1 THEN {list[1]} ELSE {})

C10_KnownShapesDecodeAlike ==
    \A list \in QuestionLists :
        (QuizDecoded /\ QuizBody \in C10_Shapes(list)) => Shown = Rendered(list)

\* the quiz tab as shown: the extracted list with each question rendered
ShownQuiz == RenderQuiz(variant, mockResult)

\* the quiz tab showing these questions, nothing raised
Showing(questions) == [raised |-> FALSE, questions |-> questions]

(***************************************************************************)
(* C11: the payload whose questions field is the JSON string of the one    *)
(* question "2+2?" with options ["3","4"] and correct_answer "4" is shown  *)
(* as exactly one question with that text, options (A,"3"), (B,"4") in     *)
(* that order, correct answer "4" and difficulty Medium.                   *)
(***************************************************************************)
C11_StringEncodedQuestionDecodes ==
    (QuizDecoded /\ QuizBody = InQuestionsString(<<Q1>>))
        => ShownQuiz = Showing(<< ShownQuestion(JStr("2+2?"),
                                                << Option("A", JStr("3")), Option("B", JStr("4")) >>,
                                                JStr("4"),
                                                JStr("Medium")) >>)

(***************************************************************************)
(* C12: a questions string that is not valid JSON is shown as the empty    *)
(* question list: rendering raises nothing and the parse failure sets no   *)
(* error banner.                                                           *)
(***************************************************************************)
C12_UnparsableStringShowsNothing ==
    (QuizDecoded /\ QuizBody = QuestionsField(JStr("not json")))
        => /\ ShownQuiz = Showing(<<>>)
           /\ error = Null

(***************************************************************************)
(* C13: every question that is shown has each option of its source shown   *)
(* exactly once: a mapping with its keys as labels in the mapping's order, *)
(* a sequence with the labels A, B, C, ... by position.                    *)
(***************************************************************************)
C13_Labelled(options) ==
    CASE options.t = "obj" -> [n \in DOMAIN options.fields |->
                                 Option(options.fields[n].k, options.fields[n].val)]
      [] options.t = "arr" -> [n \in DOMAIN options.items |->
                                 Option(<<"A", "B", "C", "D">>[n], options.items[n])]
      [] OTHER -> <<>>

C13_OptionsKeepLabelsAndOrder ==
    (QuizDecoded /\ ~Shown.raised)
        => \A n \in DOMAIN Shown.questions :
             LET q == Shown.questions[n]
             IN  Truthy(Get(q, "options"))
                   => /\ ~RenderQuestion(variant, q, n - 1).raised
                      /\ RenderQuestion(variant, q, n - 1).options
                           = C13_Labelled(Get(q, "options"))

(***************************************************************************)
(* C14: every question that is shown takes each field from the first field *)
(* of its chain that is present in the source object, also when the        *)
(* present value is empty or zero, and the default only when none of the   *)
(* chain is present.                                                       *)
(***************************************************************************)
C14_Has(q, k) == q.t = "obj" /\ \E n \in DOMAIN q.fields : q.fields[n].k = k

C14_FirstPresent(q, chain, default) ==
    IF \E n \in DOMAIN chain : C14_Has(q, chain[n])
    THEN Get(q, chain[CHOOSE n \in DOMAIN chain :
                        /\ C14_Has(q, chain[n])
                        /\ \A m \in 1..(n - 1) : ~C14_Has(q, chain[m])])
    ELSE default

C14_FirstPresentFieldWins ==
    (QuizDecoded /\ ~Shown.raised)
        => \A n \in DOMAIN Shown.questions :
             LET q == Shown.questions[n]
                 r == RenderQuestion(variant, q, n - 1)
                 options == C14_FirstPresent(q, <<"options", "choices", "answers">>, JArr(<<>>))
             IN  /\ ~r.raised
                 /\ r.text = C14_FirstPresent(q, <<"question_text", "question", "text", "prompt">>,
                                              JStr(<<"Question 1", "Question 2">>[n]))
                 /\ r.options = C13_Labelled(options)
                 /\ r.correctAnswer
                      = C14_FirstPresent(q, <<"correct_answer", "answer", "correct", "solution">>,
                                         JUndef)
                 /\ r.difficulty = C14_FirstPresent(q, <<"difficulty", "level">>, JStr("Medium"))

(***************************************************************************)
(* C15 as stated: a query submission whose text, and a quiz submission     *)
(* whose topic, is empty or all whitespace issues no request and leaves    *)
(* loading, chatHistory, answer and mockResult as they were.               *)
(***************************************************************************)
C15_Whitespace(text) == \A n \in DOMAIN text : text[n] = " "

C15_Rejected ==
    /\ queryCalls' = queryCalls
    /\ quizCalls' = quizCalls
    /\ uploadCalls' = uploadCalls
    /\ statusCalls' = statusCalls
    /\ loading' = loading
    /\ chatHistory' = chatHistory
    /\ answer' = answer
    /\ mockResult' = mockResult

C15_BlankSubmissionRejected ==
    [][ /\ \A text \in QueryInputs \cup {<<>>} :
             (C15_Whitespace(text) /\ handleQuerySubmit(text)) => C15_Rejected
        /\ \A text \in TopicInputs \cup {<<>>} :
             (C15_Whitespace(text) /\ handleTestSubmit(text)) => C15_Rejected ]_vars

(***************************************************************************)
(* C15 amended: a blank query is rejected in every component, and a blank  *)
(* topic in the components whose quiz form has a topic (part_000,          *)
(* StudyBuddyApp.jsx); the quiz form of part_001 has no topic and its      *)
(* handler sends every submission.                                         *)
(***************************************************************************)
C15_BlankRejectedWhereTopicExists ==
    [][ /\ \A text \in QueryInputs \cup {<<>>} :
             (C15_Whitespace(text) /\ handleQuerySubmit(text)) => C15_Rejected
        /\ \A text \in TopicInputs \cup {<<>>} :
             (C15_Whitespace(text) /\ handleTestSubmit(text))
                 => IF variant = PART_001
                    THEN quizCalls' # quizCalls /\ loading'
                    ELSE C15_Rejected ]_vars

\* a whitespace query and a whitespace topic were both submitted and nothing was sent
C15_Witness ==
    /\ query = <<" ">>
    /\ mockReq = <<" ">>
    /\ error = TopicMissing(variant)
    /\ ~loading
    /\ queryCalls = <<>>
    /\ quizCalls = <<>>

(***************************************************************************)
(* C16: a quiz request that resolves with a body of no known shape (null,  *)
(* an empty object, an unrelated object) ends in the neutral empty quiz:   *)
(* the error banner is null and the quiz tab shows an empty question list. *)
(***************************************************************************)
C16_UnknownShapes == { JNull, JObj(<<>>), JObj(<<Prop("message", JStr("ok"))>>) }

C16_UnknownShapeIsNoFailure ==
    (QuizDecoded /\ QuizBody \in C16_UnknownShapes)
        => /\ error = Null
           /\ ShownQuiz = Showing(<<>>)

(***************************************************************************)
(* C17: the step in which an upload, a query or a quiz ends with the error *)
(* banner set leaves systemStatus unchanged and leaves every turn of the   *)
(* log unchanged, except the failing query's own turn.                     *)
(***************************************************************************)
C17_TurnsKept(own) ==
    \A k \in DOMAIN chatHistory :
        k \notin own => (k \in DOMAIN chatHistory' /\ chatHistory'[k] = chatHistory[k])

C17_FailureLeavesLogAndStatus ==
    [][ /\ \A i \in Pending(queryCalls) :
             queryCalls'[i].status = "rejected"
                 => (systemStatus' = systemStatus /\ C17_TurnsKept({queryCalls[i].turn}))
        /\ \A i \in Pending(uploadCalls) :
             (uploadCalls'[i].status = "rejected" \/ uploadCalls'[i].raised)
                 => (systemStatus' = systemStatus /\ C17_TurnsKept({}))
        /\ \A i \in Pending(quizCalls) :
             (quizCalls'[i].status = "rejected"
                \/ (quizCalls'[i].status = "resolved"
                      /\ QuizHandlerThrows(variant, quizCalls'[i].data[1])))
                 => (systemStatus' = systemStatus /\ C17_TurnsKept({})) ]_vars

(***************************************************************************)
(* C18: loading is not stuck: whenever no upload, query or quiz request is *)
(* outstanding, by success or by failure, loading is false.                *)
(***************************************************************************)
C18_LoadingClearedWhenSettled ==
    (Settled(queryCalls) /\ Settled(uploadCalls) /\ Settled(quizCalls)) => loading = FALSE

\* two actions overlapped, one failed and one succeeded, and loading is false
C18_Witness ==
    /\ \E i \in DOMAIN queryCalls : queryCalls[i].status = "rejected"
    /\ \E i \in DOMAIN uploadCalls : uploadCalls[i].status = "resolved"
    /\ Settled(queryCalls) /\ Settled(uploadCalls) /\ Settled(quizCalls)
    /\ error # Null
    /\ ~loading

(***************************************************************************)
(* C19: when a newer query was submitted while an older one was in flight, *)
(* then once both have settled the displayed answer is the newer query's   *)
(* result, whatever the order of the two completions.                      *)
(***************************************************************************)
C19_NewerQueryOwnsAnswer ==
    \A i, j \in DOMAIN queryCalls :
        ( /\ i \in queryCalls[j].inFlight
          /\ Len(queryCalls) = 2
          /\ uploadCalls = <<>>
          /\ queryCalls[i].status = "resolved"
          /\ queryCalls[j].status = "resolved" )
        => answer = queryCalls[j].result

(***************************************************************************)
(* C20: in every reachable state systemStatus is fully populated: status   *)
(* is ONLINE or OFFLINE, documents_loaded is an integer >= 0 and the temp  *)
(* store has its is_active, chunk_count and document_name.                 *)
(***************************************************************************)
C20_StatusFullyPopulated ==
    /\ systemStatus.status \in {"ONLINE", "OFFLINE"}
    /\ systemStatus.documents_loaded \in Nat
    /\ "temp_store" \in DOMAIN systemStatus
    /\ {"is_active", "chunk_count", "document_name"} \subseteq DOMAIN systemStatus.temp_store

(***************************************************************************)
(* C21: a status refresh starts only in the mount step and in the step     *)
(* that completes an upload, never in a query step or a quiz step, and     *)
(* every step in which an upload's request resolves starts one.            *)
(***************************************************************************)
C21_RefreshStarted == Len(statusCalls') = Len(statusCalls) + 1

C21_RefreshOnMountAndAfterUpload ==
    [][ /\ statusCalls' # statusCalls /\ Len(statusCalls') # Len(statusCalls)
             => /\ C21_RefreshStarted
                /\ \/ ~mounted /\ mounted'
                   \/ \E i \in Pending(uploadCalls) : uploadCalls'[i].status = "resolved"
        /\ \A i \in Pending(uploadCalls) :
             uploadCalls'[i].status = "resolved" => C21_RefreshStarted ]_vars

(***************************************************************************)
(* C22: driven through its forms, the application has at most one upload,  *)
(* query or quiz request outstanding; loading is true exactly while one is *)
(* outstanding, and while loading is true every submit button is disabled, *)
(* whatever its form holds.                                                *)
(***************************************************************************)
C22_InFlight ==
    Cardinality(Pending(queryCalls)) + Cardinality(Pending(uploadCalls))
        + Cardinality(Pending(quizCalls))

C22_OneActionAtATime ==
    /\ C22_InFlight <= 1
    /\ loading <=> (C22_InFlight = 1)
    /\ loading => /\ \A f \in Files \cup {Null} : UploadDisabled(variant, f)
                  /\ \A text \in QueryInputs : QueryDisabled(variant, text)
                  /\ \A text \in TopicInputs \cup {<<>>} : QuizDisabled(variant, text)

\* a second action is outstanding after a first one has settled
C22_Witness ==
    /\ loading
    /\ C22_InFlight = 1
    /\ \E i \in DOMAIN queryCalls : queryCalls[i].status = "resolved"
    /\ Pending(quizCalls) # {}

(***************************************************************************)
(* C23: when the refresh started on mount and the refresh started after an *)
(* upload have both settled, systemStatus is the result of the refresh     *)
(* started last, and it is not OFFLINE together with a temp store.         *)
(***************************************************************************)
C23_ResultOf(call) ==
    IF call.outcome = "both-ok"
    THEN [status |-> call.primary[1].status,
          documents_loaded |-> call.primary[1].documents_loaded,
          temp_store |-> call.secondary[1]]
    ELSE [status |-> "OFFLINE", documents_loaded |-> 0, error |-> TRUE]

C23_LastRefreshWins ==
    (Len(statusCalls) = 2 /\ \A i \in DOMAIN statusCalls : statusCalls[i].pc = "done")
        => /\ systemStatus = C23_ResultOf(statusCalls[2])
           /\ ~(systemStatus.status = "OFFLINE" /\ "temp_store" \in DOMAIN systemStatus)

(***************************************************************************)
(* C24: the step that settles a query changes only log entries whose text  *)
(* is the text of that query; when the last entry does not carry that text *)
(* or the log is empty it appends an entry and modifies none; and after    *)
(* the step the log holds an entry pairing that text with the completion's *)
(* answer, or with a failure text when the request was rejected.           *)
(***************************************************************************)
C24_Settles(i) == i \in Pending(queryCalls) /\ queryCalls'[i].status # "pending"

C24_CompletionWritesOwnText ==
    [][ \A i \in DOMAIN queryCalls :
          (HasChatHistory(variant) /\ C24_Settles(i))
            => LET q == queryCalls[i].currentQuery
               IN  /\ \A k \in DOMAIN chatHistory :
                         (k \in DOMAIN chatHistory' /\ chatHistory'[k] # chatHistory[k])
                             => chatHistory[k].query = q
                   /\ (chatHistory = <<>> \/ chatHistory[Len(chatHistory)].query # q)
                         => /\ Len(chatHistory') = Len(chatHistory) + 1
                            /\ SubSeq(chatHistory', 1, Len(chatHistory)) = chatHistory
                   /\ \E k \in DOMAIN chatHistory' :
                         /\ chatHistory'[k].query = q
                         /\ IF queryCalls'[i].status = "resolved"
                            THEN chatHistory'[k].answer = queryCalls'[i].result
                            ELSE chatHistory'[k].answer # Placeholder(variant) ]_vars

(***************************************************************************)
(* C25: the step in which an upload's request resolves leaves the success  *)
(* text in uploadMessage, the error banner null and a status refresh       *)
(* started; the step in which it is rejected leaves the banner set and     *)
(* uploadMessage empty; both leave selectedFile null and loading false.    *)
(***************************************************************************)
C25_UploadOutcomes ==
    [][ \A i \in Pending(uploadCalls) :
          /\ uploadCalls'[i].status = "resolved"
                => /\ uploadMessage' # <<>> /\ Head(uploadMessage') = "Success"
                   /\ error' = Null
                   /\ Len(statusCalls') = Len(statusCalls) + 1
          /\ uploadCalls'[i].status = "rejected"
                => /\ error' # Null
                   /\ uploadMessage' = <<>>
          /\ uploadCalls'[i].status # "pending"
                => /\ selectedFile' = Null
                   /\ loading' = FALSE ]_vars

====
